---- MODULE Spec2Model ----
(***************************************************************************)
(* The data-availability store of the beacon node (da/store/store.go):    *)
(* IsDataAvailable, Persist and GetBlobsFromStore over the slot-keyed     *)
(* IndexDB, with the slot -> commitments index record and its codec.      *)
(*                                                                         *)
(* store.go carries two declarations of Persist and of GetBlobsFromStore. *)
(* The first Persist (lines 80-122) writes the sidecars one after the     *)
(* other and writes no index record; the second (lines 268-355) starts a  *)
(* goroutine per sidecar and then writes the index record.  The first     *)
(* GetBlobsFromStore (lines 125-189) decodes the index record with        *)
(* SlotCommitments.UnmarshalSSZ; the second (lines 358-422) reads a count *)
(* byte and 48-byte chunks.  A call is served by one declaration or the   *)
(* other (field decl of the call); both run against the same IndexDB.     *)
(*                                                                         *)
(* The IndexDB is taken to be linearizable: a Set or Get is in flight     *)
(* from the step that issues it to the step that completes it, and takes  *)
(* effect at completion.  Backend failures and the chain spec's answer    *)
(* are choices of the environment.                                        *)
(***************************************************************************)
EXTENDS Integers, Sequences, FiniteSets, TLC

(***************************************************************************)
(* Bounds of the model.                                                    *)
(***************************************************************************)
MaxSlot == 2
MaxSidecars == 2
NumCommitments == 2
NumBlobs == 2
MaxCalls == 2
NumReaders == 2
MaxPersists == 1
MaxLong == 7

(***************************************************************************)
(* Program constants.                                                      *)
(***************************************************************************)
COMMITMENT_SIZE == 48
CommitmentSize == 48
BlobsPerSlot == 6
OffsetSize == 4
\* []byte("slot_commitments")
SlotCommitmentsKey ==
    <<115, 108, 111, 116, 95, 99, 111, 109, 109, 105, 116, 109, 101, 110, 116, 115>>

\* db: the IndexDB.  call: the call in progress or the one that returned
\* last, with its locals.  last: the call before it.  tasks: the goroutines
\* alive.  ncalls: the calls made so far.  readers: the calls of
\* GetBlobsFromStore that run side by side, each with its locals.
VARIABLES db, call, last, tasks, ncalls, readers
vars == <<db, call, last, tasks, ncalls, readers>>

(***************************************************************************)
(* Values.                                                                 *)
(***************************************************************************)
Slots == 1..MaxSlot

\* A KZG commitment: 48 bytes.  The inputs use the commitments whose bytes
\* all equal one id.
KzgCommitment(id) == [k \in 1..COMMITMENT_SIZE |-> id]
Commitments == {KzgCommitment(id) : id \in 1..NumCommitments}

\* *types.BlobSidecar; isNil is the nil pointer.
NilSidecar == [isNil |-> TRUE, Blob |-> 0, KzgCommitment |-> <<>>]
BlobSidecar(blob, c) == [isNil |-> FALSE, Blob |-> blob, KzgCommitment |-> c]
SidecarValues == {BlobSidecar(b, c) : b \in 1..NumBlobs, c \in Commitments}

SeqsUpTo(S, n) == UNION {[1..k -> S] : k \in 0..n}

\* types.BlobSidecars as Persist receives it: absent (IsNil) or a list whose
\* entries may be nil pointers.
NilSidecars == [isNil |-> TRUE, Sidecars |-> <<>>]
BlobSidecars(list) == [isNil |-> FALSE, Sidecars |-> list]
SidecarsInputs ==
    {NilSidecars} \cup
    {BlobSidecars(l) : l \in SeqsUpTo(SidecarValues \cup {NilSidecar}, MaxSidecars)}

\* body.GetBlobKzgCommitments()
BodyInputs == SeqsUpTo(Commitments, MaxSidecars)

\* Errors.
NoErr == ""
ErrAttemptedToStoreNilSidecar == "ErrAttemptedToStoreNilSidecar"
ErrBackend == "ErrBackend"
ErrKeyNotFound == "ErrKeyNotFound"
ErrMarshal == "ErrMarshal"
ErrDecode == "ErrDecode"

(***************************************************************************)
(* Bytes.                                                                  *)
(***************************************************************************)
RECURSIVE Concat(_)
\* append(serializedCommitments, commitment...) over the list, in order
Concat(list) ==
    IF Len(list) = 0 THEN <<>> ELSE Head(list) \o Concat(Tail(list))

\* A little-endian uint32 at offset off (0-based) of b.
U32(b, off) ==
    b[off + 1] + 256 * b[off + 2] + 65536 * b[off + 3] + 16777216 * b[off + 4]

\* BlobSidecar.MarshalSSZ / UnmarshalSSZ: the payload followed by the
\* commitment; a record of any other length does not decode.
MarshalSSZ(sc) == <<sc.Blob>> \o sc.KzgCommitment
SidecarSize == 1 + COMMITMENT_SIZE
UnmarshalSidecarOk(bz) == Len(bz) = SidecarSize
UnmarshalSidecar(bz) == BlobSidecar(bz[1], SubSeq(bz, 2, SidecarSize))

(***************************************************************************)
(* The slot -> commitments index record.                                   *)
(***************************************************************************)
\* A count byte that is one too many.
SerializeCommitments_CountOffByOne(commitments) ==
    <<(Len(commitments) + 1) % 256>> \o Concat(commitments)

\* Persist, second declaration: the count byte, then the commitments.
SerializeCommitments(commitments) ==
    <<Len(commitments) % 256>> \o Concat(commitments)

\* GetBlobsFromStore, second declaration: serializedCommitments[0] and the
\* slices serializedCommitments[start:end].  Both panic out of range.
DeserializeOk(bz) ==
    /\ Len(bz) >= 1
    /\ 1 + bz[1] * COMMITMENT_SIZE <= Len(bz)
\* Slices taken as if the record had no count byte.
DeserializeCommitments_NoCountByte(bz) ==
    [i \in 1..bz[1] |->
        SubSeq(bz, 1 + (i - 1) * COMMITMENT_SIZE, i * COMMITMENT_SIZE)]

\* commitments[i] = serializedCommitments[1+i*48 : 1+(i+1)*48]
DeserializeCommitments(bz) ==
    [i \in 1..bz[1] |->
        SubSeq(bz, 2 + (i - 1) * COMMITMENT_SIZE, 1 + i * COMMITMENT_SIZE)]

\* SlotCommitments.UnmarshalSSZ: a container of one dynamic field, a list of
\* at most BlobsPerSlot byte lists of at most CommitmentSize bytes.  The
\* container holds the 4-byte offset of the field, which must be OffsetSize;
\* the list holds one offset per item, then the items.
SSZItems(rest) == U32(rest, 0) \div OffsetSize
SSZItemStart(rest, i) == U32(rest, (i - 1) * OffsetSize)
SSZItemEnd(rest, i) ==
    IF i = SSZItems(rest) THEN Len(rest) ELSE U32(rest, i * OffsetSize)
SSZListOk(rest) ==
    \/ Len(rest) = 0
    \/ /\ Len(rest) >= OffsetSize
       /\ U32(rest, 0) % OffsetSize = 0
       /\ U32(rest, 0) > 0
       /\ U32(rest, 0) <= Len(rest)
       /\ SSZItems(rest) <= BlobsPerSlot
       /\ \A i \in 1..SSZItems(rest) :
            /\ SSZItemStart(rest, i) <= SSZItemEnd(rest, i)
            /\ SSZItemEnd(rest, i) <= Len(rest)
            /\ SSZItemEnd(rest, i) - SSZItemStart(rest, i) <= CommitmentSize
            /\ i > 1 => SSZItemStart(rest, i) >= SSZItemEnd(rest, i - 1)
UnmarshalSSZOk(buf) ==
    /\ Len(buf) >= OffsetSize
    /\ U32(buf, 0) = OffsetSize
    /\ SSZListOk(SubSeq(buf, OffsetSize + 1, Len(buf)))
UnmarshalSSZ(buf) ==
    LET rest == SubSeq(buf, OffsetSize + 1, Len(buf)) IN
    IF Len(rest) = 0 THEN <<>>
    ELSE [i \in 1..SSZItems(rest) |->
            SubSeq(rest, SSZItemStart(rest, i) + 1, SSZItemEnd(rest, i))]

(***************************************************************************)
(* IndexDB: Has, Get, Set on (slot, key).                                  *)
(***************************************************************************)
Has(d, slot, key) == <<slot, key>> \in DOMAIN d
Get(d, slot, key) == IF Has(d, slot, key) THEN d[<<slot, key>>] ELSE <<>>
Set(d, slot, key, value) ==
    [p \in DOMAIN d \cup {<<slot, key>>} |->
        IF p = <<slot, key>> THEN value ELSE d[p]]
EmptyDB == [p \in {} |-> <<>>]

(***************************************************************************)
(* A call of the store and its locals.                                     *)
(***************************************************************************)
IdleCall ==
    [id |-> 0, op |-> "none", decl |-> 0, slot |-> 0,
     sidecars |-> NilSidecars, body |-> <<>>,
     pc |-> "idle", i |-> 0, wg |-> 0, errChan |-> <<>>,
     commitments |-> <<>>, bz |-> <<>>, out |-> <<>>,
     err |-> NoErr, avail |-> FALSE, outNil |-> TRUE,
     \* what the call did, recorded for the properties: the chain spec was
     \* consulted and its answer, a failure of the backend or of a
     \* serialization was met, the keys written in the order the Sets
     \* completed, the IndexDB when the call began
     daConsulted |-> FALSE, within |-> FALSE, faulted |-> FALSE,
     writes |-> <<>>, dbAtStart |-> EmptyDB,
     \* the indices of the sidecars whose Set was issued, the indices whose
     \* serialization, Set or read reported an error, and the Has lookups made,
     \* in order; whether another call of GetBlobsFromStore was in progress
     \* during this one
     issued |-> {}, failed |-> {}, lookups |-> <<>>, overlapped |-> FALSE]

NewCall(op, d, slot) ==
    [IdleCall EXCEPT !.id = ncalls + 1, !.op = op, !.decl = d, !.slot = slot,
                     !.dbAtStart = db]

Return(c, err) == [c EXCEPT !.pc = "returned", !.err = err]
Fault(c) == [c EXCEPT !.faulted = TRUE]
FailedAt(c, index) == [Fault(c) EXCEPT !.failed = c.failed \cup {index}]
Issued(c, index) == [c EXCEPT !.issued = c.issued \cup {index}]
Wrote(c, key) == [c EXCEPT !.writes = Append(c.writes, key)]

\* What is kept of a call once the next one begins; indexed: its slot had an
\* index record when it began.
Summary(c) ==
    [op |-> c.op, decl |-> c.decl, slot |-> c.slot, sidecars |-> c.sidecars,
     pc |-> c.pc, err |-> c.err, within |-> c.within, faulted |-> c.faulted,
     indexed |-> Has(c.dbAtStart, c.slot, SlotCommitmentsKey)]

CanCall == call.pc \in {"idle", "returned"} /\ ncalls < MaxCalls

\* A goroutine started by a call.
Task(c, index, pc, sc, comm) ==
    [cid |-> c.id, op |-> c.op, slot |-> c.slot, index |-> index, pc |-> pc,
     sc |-> sc, comm |-> comm, bz |-> <<>>, err |-> NoErr]

\* The callers of GetBlobsFromStore that run side by side.
Readers == 1..NumReaders
IdleReaders == [r \in Readers |-> [IdleCall EXCEPT !.id = MaxCalls + r]]

Init ==
    /\ db = EmptyDB
    /\ call = IdleCall
    /\ last = Summary(IdleCall)
    /\ tasks = {}
    /\ ncalls = 0
    /\ readers = IdleReaders

(***************************************************************************)
(* Persist.                                                                *)
(***************************************************************************)
\* An early exit that forgets the empty list.
NoSidecars_NilOnly(sidecars) == sidecars.isNil

\* sidecars.IsNil() || len(sidecars) == 0
NoSidecars(sidecars) == sidecars.isNil \/ Len(sidecars.Sidecars) = 0

\* A Persist that stores whatever the chain spec answers.
OutsideDAPeriod_Never(within) == FALSE

\* if !s.chainSpec.WithinDAPeriod(...) { return nil }; within is the chain
\* spec's answer.
OutsideDAPeriod(within) == ~within

\* A Persist that writes the index record of the list first, before any
\* sidecar.
Persist_IndexFirst(slot, sidecars, d) ==
    /\ CanCall
    /\ ncalls' = ncalls + 1
    /\ last' = Summary(call)
    /\ ~NoSidecars(sidecars) /\ ~sidecars.Sidecars[1].isNil
    /\ call' = [NewCall("Persist", d, slot) EXCEPT
                  !.sidecars = sidecars,
                  !.daConsulted = TRUE, !.within = TRUE,
                  !.pc = IF d = 1 THEN "loop" ELSE "spawn",
                  !.i = 1,
                  !.commitments = [k \in 1..Len(sidecars.Sidecars) |-> <<>>]]
    /\ db' = Set(db, slot, SlotCommitmentsKey,
                 SerializeCommitments(
                   [k \in 1..Len(sidecars.Sidecars) |->
                      sidecars.Sidecars[k].KzgCommitment]))
    /\ UNCHANGED <<readers, tasks>>

\* The entry of Persist, the same in both declarations: the empty-list exit,
\* then the DA-period exit, which reads the header of sidecars[0] and so
\* dereferences it.
Persist(slot, sidecars, d) ==
    /\ CanCall
    /\ ncalls' = ncalls + 1
    /\ last' = Summary(call)
    /\ LET c == [NewCall("Persist", d, slot) EXCEPT !.sidecars = sidecars] IN
       IF NoSidecars(sidecars)
       THEN call' = Return(c, NoErr)
       ELSE IF Len(sidecars.Sidecars) = 0 \/ sidecars.Sidecars[1].isNil
       THEN call' = [c EXCEPT !.pc = "panic"]
       ELSE \E within \in BOOLEAN :
              call' = IF OutsideDAPeriod(within)
                      THEN Return([c EXCEPT !.daConsulted = TRUE,
                                            !.within = within], NoErr)
                      ELSE [c EXCEPT !.daConsulted = TRUE, !.within = within,
                                     !.pc = IF d = 1 THEN "loop" ELSE "spawn",
                                     !.i = 1,
                                     !.commitments =
                                        [k \in 1..Len(sidecars.Sidecars) |-> <<>>]]
    /\ UNCHANGED <<readers, db, tasks>>

\* First declaration, lines 103-111: the next sidecar of the loop, up to the
\* call of Set.
PersistLoop ==
    /\ call.pc = "loop" /\ call.op = "Persist"
    /\ LET list == call.sidecars.Sidecars IN
       IF call.i > Len(list)
       THEN call' = Return(call, NoErr)
       ELSE IF list[call.i].isNil
       THEN call' = Return(call, ErrAttemptedToStoreNilSidecar)
       ELSE \E marshalFails \in BOOLEAN :
              call' = IF marshalFails
                      THEN Return(FailedAt(call, call.i), ErrMarshal)
                      ELSE [Issued(call, call.i) EXCEPT
                              !.pc = "set", !.bz = MarshalSSZ(list[call.i])]
    /\ UNCHANGED <<readers, db, last, tasks, ncalls>>

\* A Set that reports success and writes nothing.
PersistSet_NoWrite ==
    /\ call.pc = "set" /\ call.op = "Persist"
    /\ call' = [call EXCEPT !.pc = "loop", !.i = call.i + 1]
    /\ UNCHANGED <<readers, db, last, tasks, ncalls>>

\* First declaration, lines 112-115: s.Set returns.
PersistSet ==
    /\ call.pc = "set" /\ call.op = "Persist"
    /\ \E setFails \in BOOLEAN :
         IF setFails
         THEN /\ call' = Return(FailedAt(call, call.i), ErrBackend)
              /\ db' = db
         ELSE LET key == call.sidecars.Sidecars[call.i].KzgCommitment IN
              /\ db' = Set(db, call.slot, key, call.bz)
              /\ call' = [Wrote(call, key) EXCEPT !.pc = "loop",
                                                  !.i = call.i + 1]
    /\ UNCHANGED <<readers, last, tasks, ncalls>>

\* Second declaration, lines 297-323: one iteration of the loop that starts
\* the goroutines; a nil entry returns at once, the goroutines already
\* started keep running.
PersistSpawn ==
    /\ call.pc = "spawn" /\ call.op = "Persist"
    /\ LET list == call.sidecars.Sidecars IN
       IF list[call.i].isNil
       THEN /\ call' = Return(call, ErrAttemptedToStoreNilSidecar)
            /\ tasks' = tasks
       ELSE /\ tasks' = tasks \cup {Task(call, call.i, "marshal", list[call.i], <<>>)}
            /\ call' = [call EXCEPT !.wg = call.wg + 1,
                                    !.i = call.i + 1,
                                    !.pc = IF call.i = Len(list)
                                           THEN "wait" ELSE "spawn"]
    /\ UNCHANGED <<readers, db, last, ncalls>>

\* The locals of the call as a goroutine leaves them: wg.Done(), and an
\* error sent to errChan.  A goroutine that outlives its call changes the
\* locals of no other call.
TaskDone(t, err, fault) ==
    IF call.id = t.cid
    THEN [call EXCEPT !.wg = call.wg - 1,
                      !.errChan = IF err = NoErr THEN call.errChan
                                  ELSE Append(call.errChan, err),
                      !.faulted = call.faulted \/ fault,
                      !.failed = IF err = NoErr THEN call.failed
                                 ELSE call.failed \cup {t.index}]
    ELSE call

\* Second declaration, lines 306-310: sc.MarshalSSZ() in the goroutine.
PersistTaskMarshal(t) ==
    /\ t \in tasks /\ t.op = "Persist" /\ t.pc = "marshal"
    /\ call.pc # "panic"
    /\ \E marshalFails \in BOOLEAN :
         IF marshalFails
         THEN /\ tasks' = tasks \ {t}
              /\ call' = TaskDone(t, ErrMarshal, TRUE)
         ELSE /\ tasks' = (tasks \ {t}) \cup
                          {[t EXCEPT !.pc = "set", !.bz = MarshalSSZ(t.sc)]}
              /\ call' = IF call.id = t.cid THEN Issued(call, t.index) ELSE call
    /\ UNCHANGED <<readers, db, last, ncalls>>

\* Second declaration, lines 313-321: s.IndexDB.Set returns in the
\* goroutine, which then records the commitment at its index.
PersistTaskSet(t) ==
    /\ t \in tasks /\ t.op = "Persist" /\ t.pc = "set"
    /\ call.pc # "panic"
    /\ tasks' = tasks \ {t}
    /\ \E setFails \in BOOLEAN :
         IF setFails
         THEN /\ call' = TaskDone(t, ErrBackend, TRUE)
              /\ db' = db
         ELSE /\ db' = Set(db, t.slot, t.sc.KzgCommitment, t.bz)
              /\ call' = IF call.id = t.cid
                         THEN [Wrote(TaskDone(t, NoErr, FALSE), t.sc.KzgCommitment)
                                 EXCEPT !.commitments[t.index] = t.sc.KzgCommitment]
                         ELSE call
    /\ UNCHANGED <<readers, last, ncalls>>

\* A join that writes the index record whatever the goroutines reported.
PersistJoin_IgnoringErrors ==
    /\ call.pc = "wait" /\ call.op = "Persist"
    /\ call.wg = 0
    /\ call' = [call EXCEPT !.pc = "setIndex",
                            !.bz = SerializeCommitments(call.commitments)]
    /\ UNCHANGED <<readers, db, last, tasks, ncalls>>

\* Second declaration, lines 326-343: wg.Wait(), the first error of errChan,
\* else the index record is serialized and its Set issued.
PersistJoin ==
    /\ call.pc = "wait" /\ call.op = "Persist"
    /\ call.wg = 0
    /\ call' = IF Len(call.errChan) > 0
               THEN Return(call, Head(call.errChan))
               ELSE [call EXCEPT !.pc = "setIndex",
                                 !.bz = SerializeCommitments(call.commitments)]
    /\ UNCHANGED <<readers, db, last, tasks, ncalls>>

\* Second declaration, lines 347-354: the Set of the index record returns.
PersistSetIndex ==
    /\ call.pc = "setIndex" /\ call.op = "Persist"
    /\ \E setFails \in BOOLEAN :
         IF setFails
         THEN /\ call' = Return(Fault(call), ErrBackend)
              /\ db' = db
         ELSE /\ db' = Set(db, call.slot, SlotCommitmentsKey, call.bz)
              /\ call' = Return(Wrote(call, SlotCommitmentsKey), NoErr)
    /\ UNCHANGED <<readers, last, tasks, ncalls>>

(***************************************************************************)
(* GetBlobsFromStore.                                                      *)
(***************************************************************************)
\* The decoding of the index record: SlotCommitments.UnmarshalSSZ in the
\* first declaration (lines 137-141), the count byte and the 48-byte slices
\* in the second (lines 367-374).
DecodeOk(d, bz) == IF d = 1 THEN UnmarshalSSZOk(bz) ELSE DeserializeOk(bz)
Decode(d, bz) == IF d = 1 THEN UnmarshalSSZ(bz) ELSE DeserializeCommitments(bz)

\* A missing index record reported as an error.
EmptyCollection_AsError(c) == Return(c, ErrKeyNotFound)

\* return &types.BlobSidecars{Sidecars: make([]*types.BlobSidecar, 0)}, nil
EmptyCollection(c) == [Return(c, NoErr) EXCEPT !.out = <<>>, !.outNil = FALSE]

\* The entry of GetBlobsFromStore: the Get of the index record, whose every
\* error returns the empty collection; then the decoding; then errChan, wg
\* and the result slice.
ReadIndex(c, getFails) ==
    IF getFails \/ ~Has(db, c.slot, SlotCommitmentsKey)
    THEN EmptyCollection(c)
    ELSE LET bz == Get(db, c.slot, SlotCommitmentsKey) IN
         IF ~DecodeOk(c.decl, bz)
         THEN IF c.decl = 1 THEN Return(c, ErrDecode)
                            ELSE [c EXCEPT !.pc = "panic"]
         ELSE LET comms == Decode(c.decl, bz) IN
              [c EXCEPT !.commitments = comms,
                        !.out = [k \in 1..Len(comms) |-> NilSidecar],
                        !.i = 1,
                        !.pc = IF Len(comms) = 0 THEN "wait" ELSE "spawn"]

GetBlobsFromStore(slot, d) ==
    /\ CanCall
    /\ ncalls' = ncalls + 1
    /\ last' = Summary(call)
    /\ \E getFails \in BOOLEAN :
         call' = ReadIndex([NewCall("GetBlobsFromStore", d, slot) EXCEPT
                              !.faulted = getFails], getFails)
    /\ UNCHANGED <<readers, db, tasks>>

\* Lines 151-175 / 384-408: one iteration of the loop that starts the read
\* goroutines.
Spawned(c) ==
    [c EXCEPT !.wg = c.wg + 1,
              !.i = c.i + 1,
              !.pc = IF c.i = Len(c.commitments) THEN "wait" ELSE "spawn"]

GetBlobsSpawn ==
    /\ call.pc = "spawn" /\ call.op = "GetBlobsFromStore"
    /\ tasks' = tasks \cup
                {Task(call, call.i, "get", NilSidecar, call.commitments[call.i])}
    /\ call' = Spawned(call)
    /\ UNCHANGED <<readers, db, last, ncalls>>

\* A read that empties the record it has read.
GetBlobsTaskGet_Consuming(t) ==
    /\ t \in tasks /\ t.op = "GetBlobsFromStore" /\ t.pc = "get"
    /\ call.pc # "panic"
    /\ Has(db, t.slot, t.comm)
    /\ tasks' = (tasks \ {t}) \cup
                {[t EXCEPT !.pc = "unmarshal", !.bz = Get(db, t.slot, t.comm)]}
    /\ db' = Set(db, t.slot, t.comm, <<>>)
    /\ UNCHANGED <<readers, call, last, ncalls>>

\* Lines 157-161 / 390-394: s.IndexDB.Get in the goroutine.
GetBlobsTaskGet(t) ==
    /\ t \in tasks /\ t.op = "GetBlobsFromStore" /\ t.pc = "get"
    /\ call.pc # "panic"
    /\ \E getFails \in BOOLEAN :
         IF getFails \/ ~Has(db, t.slot, t.comm)
         THEN /\ tasks' = tasks \ {t}
              /\ call' = TaskDone(t, IF getFails THEN ErrBackend ELSE ErrKeyNotFound,
                                   getFails)
         ELSE /\ tasks' = (tasks \ {t}) \cup
                          {[t EXCEPT !.pc = "unmarshal",
                                     !.bz = Get(db, t.slot, t.comm)]}
              /\ call' = call
    /\ UNCHANGED <<readers, db, last, ncalls>>

\* A goroutine that appends: it fills the first free position.
StoreAt_Append(out, index, sidecar) ==
    LET free == CHOOSE i \in 1..Len(out) :
                  out[i].isNil /\ \A j \in 1..(i - 1) : ~out[j].isNil
    IN [out EXCEPT ![free] = sidecar]

\* A goroutine that reads the loop variable instead of its own index: the
\* loop has ended by the time it stores.
StoreAt_LoopVariable(out, index, sidecar) == [out EXCEPT ![Len(out)] = sidecar]

\* sidecars[index] = sidecar
StoreAt(out, index, sidecar) == [out EXCEPT ![index] = sidecar]

\* Lines 164-173 / 397-406: sidecar.UnmarshalSSZ, then sidecars[index].
GetBlobsTaskUnmarshal(t) ==
    /\ t \in tasks /\ t.op = "GetBlobsFromStore" /\ t.pc = "unmarshal"
    /\ call.pc # "panic"
    /\ tasks' = tasks \ {t}
    /\ call' = IF ~UnmarshalSidecarOk(t.bz)
               THEN TaskDone(t, ErrDecode, FALSE)
               ELSE IF call.id = t.cid
               THEN [TaskDone(t, NoErr, FALSE) EXCEPT
                       !.out = StoreAt(call.out, t.index, UnmarshalSidecar(t.bz))]
               ELSE call
    /\ UNCHANGED <<readers, db, last, ncalls>>

\* A join that drops the errors and returns the slice as filled.
Joined_IgnoringErrors(c) == [Return(c, NoErr) EXCEPT !.outNil = FALSE]

\* for err := range errChan { return nil, err }; return &BlobSidecars{...}
Joined(c) ==
    IF Len(c.errChan) > 0
    THEN [Return(c, Head(c.errChan)) EXCEPT !.out = <<>>, !.outNil = TRUE]
    ELSE [Return(c, NoErr) EXCEPT !.outNil = FALSE]

\* A return that does not wait for the goroutines.
GetBlobsJoin_NoWait ==
    /\ call.pc = "wait" /\ call.op = "GetBlobsFromStore"
    /\ call' = Joined(call)
    /\ UNCHANGED <<readers, db, last, tasks, ncalls>>

\* Lines 178-188 / 411-421: wg.Wait(), close(errChan), the first error or
\* the collection.
GetBlobsJoin ==
    /\ call.pc = "wait" /\ call.op = "GetBlobsFromStore"
    /\ call.wg = 0
    /\ call' = Joined(call)
    /\ UNCHANGED <<readers, db, last, tasks, ncalls>>

(***************************************************************************)
(* IsDataAvailable.                                                        *)
(***************************************************************************)
\* A lookup that counts as missing only when it both fails and reports
\* absence.
Missing_Conj(hasFails, blockData) == hasFails /\ ~blockData

\* if err != nil || !blockData { return false }
Missing(hasFails, blockData) == hasFails \/ ~blockData

IsDataAvailable(slot, body) ==
    /\ CanCall
    /\ ncalls' = ncalls + 1
    /\ last' = Summary(call)
    /\ call' = [NewCall("IsDataAvailable", 0, slot) EXCEPT
                  !.body = body, !.pc = "has", !.i = 1]
    /\ UNCHANGED <<readers, db, tasks>>

\* A loop that looks every commitment up and answers at its end.
IsDataAvailableLookup_NoShortCircuit ==
    /\ call.pc = "has" /\ call.op = "IsDataAvailable"
    /\ IF call.i > Len(call.body)
       THEN call' = [Return(call, NoErr) EXCEPT !.avail = call.outNil]
       ELSE \E hasFails \in BOOLEAN :
              LET key == call.body[call.i]
                  found == Has(db, call.slot, key)
              IN
              call' = [call EXCEPT
                         !.faulted = call.faulted \/ hasFails,
                         !.lookups = Append(call.lookups,
                                            [key |-> key, failed |-> hasFails,
                                             found |-> found]),
                         !.outNil = call.outNil /\ ~hasFails /\ found,
                         !.i = call.i + 1]
    /\ UNCHANGED <<readers, db, last, tasks, ncalls>>

\* Lines 68-75 / 256-263: one s.IndexDB.Has of the loop, or its end.
IsDataAvailableLookup ==
    /\ call.pc = "has" /\ call.op = "IsDataAvailable"
    /\ IF call.i > Len(call.body)
       THEN call' = [Return(call, NoErr) EXCEPT !.avail = TRUE]
       ELSE \E hasFails \in BOOLEAN :
              LET key == call.body[call.i]
                  c == [call EXCEPT
                          !.faulted = call.faulted \/ hasFails,
                          !.lookups = Append(call.lookups,
                                             [key |-> key, failed |-> hasFails,
                                              found |-> Has(db, call.slot, key)])]
              IN
              call' = IF Missing(hasFails, Has(db, call.slot, call.body[call.i]))
                      THEN [Return(c, NoErr) EXCEPT !.avail = FALSE]
                      ELSE [c EXCEPT !.i = call.i + 1]
    /\ UNCHANGED <<readers, db, last, tasks, ncalls>>

(***************************************************************************)
(* The store.                                                              *)
(***************************************************************************)
Next ==
    \/ \E slot \in Slots, sidecars \in SidecarsInputs, d \in {1, 2} :
         Persist(slot, sidecars, d)
    \/ PersistLoop
    \/ PersistSet
    \/ PersistSpawn
    \/ \E t \in tasks : PersistTaskMarshal(t)
    \/ \E t \in tasks : PersistTaskSet(t)
    \/ PersistJoin
    \/ PersistSetIndex
    \/ \E slot \in Slots, d \in {1, 2} : GetBlobsFromStore(slot, d)
    \/ GetBlobsSpawn
    \/ \E t \in tasks : GetBlobsTaskGet(t)
    \/ \E t \in tasks : GetBlobsTaskUnmarshal(t)
    \/ GetBlobsJoin
    \/ \E slot \in Slots, body \in BodyInputs : IsDataAvailable(slot, body)
    \/ IsDataAvailableLookup

Spec == Init /\ [][Next]_vars

(***************************************************************************)
(* The codec of the index record on its own: a list of at most             *)
(* BlobsPerSlot commitments is serialized as Persist does and the bytes    *)
(* are read back as GetBlobsFromStore does (second declaration).           *)
(***************************************************************************)
CodecInputs == SeqsUpTo(Commitments, BlobsPerSlot)

InitCodec ==
    /\ db = EmptyDB
    /\ last = Summary(IdleCall)
    /\ tasks = {}
    /\ ncalls = 0
    /\ readers = IdleReaders
    /\ \E commitments \in CodecInputs :
         call = [IdleCall EXCEPT !.op = "codec", !.pc = "serialize",
                                 !.commitments = commitments]

\* Lines 336-343: the count byte, then every commitment appended.
CodecSerialize ==
    /\ call.op = "codec" /\ call.pc = "serialize"
    /\ call' = [call EXCEPT !.bz = SerializeCommitments(call.commitments),
                            !.pc = "deserialize"]
    /\ UNCHANGED <<readers, db, last, tasks, ncalls>>

\* Lines 367-374: the count byte read, then the slices taken.
CodecDeserialize ==
    /\ call.op = "codec" /\ call.pc = "deserialize"
    /\ call' = IF DeserializeOk(call.bz)
               THEN [call EXCEPT !.out = DeserializeCommitments(call.bz),
                                 !.pc = "returned"]
               ELSE [call EXCEPT !.pc = "panic"]
    /\ UNCHANGED <<readers, db, last, tasks, ncalls>>

NextCodec == CodecSerialize \/ CodecDeserialize

SpecCodec == InitCodec /\ [][NextCodec]_vars

(***************************************************************************)
(* A store opened by New over an IndexDB that already holds records of a   *)
(* slot: an index record, well formed or left empty by whoever wrote it,   *)
(* and sidecar records for some commitments.  The reads are then served    *)
(* from it.                                                                *)
(***************************************************************************)
StoredIndexRecords ==
    {<<>>} \cup
    {SerializeCommitments(l) : l \in SeqsUpTo(Commitments, MaxSidecars)}

StoredSidecars ==
    {S \in SUBSET SidecarValues :
       \A a, b \in S : a.KzgCommitment = b.KzgCommitment => a = b}

StoredDB(slot, index, S) ==
    [p \in {<<slot, SlotCommitmentsKey>>} \cup
           {<<slot, sc.KzgCommitment>> : sc \in S} |->
       IF p[2] = SlotCommitmentsKey
       THEN index
       ELSE MarshalSSZ(CHOOSE sc \in S : sc.KzgCommitment = p[2])]

InitStored ==
    /\ \E slot \in Slots, index \in StoredIndexRecords, S \in StoredSidecars :
         db = StoredDB(slot, index, S)
    /\ call = IdleCall
    /\ last = Summary(IdleCall)
    /\ tasks = {}
    /\ ncalls = 0
    /\ readers = IdleReaders

NextStored ==
    \/ \E slot \in Slots, d \in {1, 2} : GetBlobsFromStore(slot, d)
    \/ GetBlobsSpawn
    \/ \E t \in tasks : GetBlobsTaskGet(t)
    \/ \E t \in tasks : GetBlobsTaskUnmarshal(t)
    \/ GetBlobsJoin

SpecStored == InitStored /\ [][NextStored]_vars

(***************************************************************************)
(* Readers side by side.  One build of the store, every call served by the *)
(* same declaration, persists; once Persist has returned and none of its   *)
(* goroutines is left, calls of GetBlobsFromStore run concurrently on the  *)
(* IndexDB.  The send on errChan is a step of its own here: it waits while *)
(* the channel is full.                                                    *)
(***************************************************************************)
PersistInFlight ==
    \/ call.pc \notin {"idle", "returned"}
    \/ \E t \in tasks : t.op = "Persist"

ReadersRunning == {r \in Readers : readers[r].pc \in {"spawn", "wait"}}

PersistFirst(slot, sidecars, d) ==
    /\ ncalls < MaxPersists
    /\ ncalls > 0 => d = call.decl
    /\ \A r \in Readers : readers[r].pc = "idle"
    /\ Persist(slot, sidecars, d)

\* The entry of GetBlobsFromStore in the goroutine of caller r.
ReaderCall(r, slot) ==
    /\ ncalls > 0 /\ ~PersistInFlight
    /\ readers[r].pc = "idle"
    /\ \A q \in 1..(r - 1) : readers[q].pc # "idle"
    /\ \E getFails \in BOOLEAN :
         readers' =
           [q \in Readers |->
              IF q = r
              THEN ReadIndex([readers[r] EXCEPT
                                !.op = "GetBlobsFromStore",
                                !.decl = call.decl, !.slot = slot,
                                !.dbAtStart = db, !.faulted = getFails,
                                !.overlapped = ReadersRunning # {}],
                             getFails)
              ELSE IF q \in ReadersRunning
              THEN [readers[q] EXCEPT !.overlapped = TRUE]
              ELSE readers[q]]
    /\ UNCHANGED <<db, call, last, tasks, ncalls>>

\* Lines 151-175 / 384-408: wg.Add(1); go func(index, comm).
ReaderSpawn(r) ==
    /\ readers[r].pc = "spawn"
    /\ tasks' = tasks \cup
                {Task(readers[r], readers[r].i, "get", NilSidecar,
                      readers[r].commitments[readers[r].i])}
    /\ readers' = [readers EXCEPT ![r] = Spawned(readers[r])]
    /\ UNCHANGED <<db, call, last, ncalls>>

ReaderOf(t) == t.cid - MaxCalls
ReaderTasks == {t \in tasks : t.cid > MaxCalls}

\* defer wg.Done()
Done(c) == [c EXCEPT !.wg = c.wg - 1]

\* Lines 157-161 / 390-394: s.IndexDB.Get in the goroutine; on an error the
\* goroutine goes on to send it.
ReaderTaskGet(t) ==
    /\ t \in ReaderTasks /\ t.pc = "get"
    /\ \E getFails \in BOOLEAN :
         /\ tasks' = (tasks \ {t}) \cup
                {IF getFails \/ ~Has(db, t.slot, t.comm)
                 THEN [t EXCEPT !.pc = "send",
                                !.err = IF getFails THEN ErrBackend
                                                    ELSE ErrKeyNotFound]
                 ELSE [t EXCEPT !.pc = "unmarshal",
                                !.bz = Get(db, t.slot, t.comm)]}
         /\ readers' = [readers EXCEPT ![ReaderOf(t)].faulted = @ \/ getFails]
    /\ UNCHANGED <<db, call, last, ncalls>>

\* Lines 164-173 / 397-406: sidecar.UnmarshalSSZ, then sidecars[index].
ReaderTaskUnmarshal(t) ==
    /\ t \in ReaderTasks /\ t.pc = "unmarshal"
    /\ IF ~UnmarshalSidecarOk(t.bz)
       THEN /\ tasks' = (tasks \ {t}) \cup
                        {[t EXCEPT !.pc = "send", !.err = ErrDecode]}
            /\ readers' = readers
       ELSE /\ tasks' = tasks \ {t}
            /\ readers' = [readers EXCEPT ![ReaderOf(t)] =
                             [Done(@) EXCEPT
                                !.out = StoreAt(@, t.index,
                                                UnmarshalSidecar(t.bz))]]
    /\ UNCHANGED <<db, call, last, ncalls>>

\* A channel made without a buffer.
ErrChanCap_Unbuffered(c) == 0

\* errChan := make(chan error, len(commitments))
ErrChanCap(c) == Len(c.commitments)

\* Lines 159 and 166 / 392 and 399: errChan <- err, which proceeds when the
\* buffer has room (nothing receives before wg.Wait() returns); then the
\* goroutine returns and its deferred wg.Done() runs.
ReaderTaskSend(t) ==
    /\ t \in ReaderTasks /\ t.pc = "send"
    /\ Len(readers[ReaderOf(t)].errChan) < ErrChanCap(readers[ReaderOf(t)])
    /\ tasks' = tasks \ {t}
    /\ readers' = [readers EXCEPT ![ReaderOf(t)] =
                     [Done(@) EXCEPT !.errChan = Append(@, t.err),
                                     !.failed = @ \cup {t.index}]]
    /\ UNCHANGED <<db, call, last, ncalls>>

\* Lines 178-188 / 411-421: wg.Wait(), close(errChan), the first error or
\* the collection.
ReaderJoin(r) ==
    /\ readers[r].pc = "wait"
    /\ readers[r].wg = 0
    /\ readers' = [readers EXCEPT ![r] = Joined(readers[r])]
    /\ UNCHANGED <<db, call, last, tasks, ncalls>>

\* The steps of a call of GetBlobsFromStore once it has begun: those of its
\* own goroutine and those of the goroutines it started.
ReaderProgress ==
    \/ \E r \in Readers : ReaderSpawn(r)
    \/ \E t \in tasks : ReaderTaskGet(t)
    \/ \E t \in tasks : ReaderTaskUnmarshal(t)
    \/ \E t \in tasks : ReaderTaskSend(t)
    \/ \E r \in Readers : ReaderJoin(r)

NextReaders ==
    \/ \E slot \in Slots, sidecars \in SidecarsInputs, d \in {1, 2} :
         PersistFirst(slot, sidecars, d)
    \/ PersistLoop
    \/ PersistSet
    \/ PersistSpawn
    \/ \E t \in tasks : PersistTaskMarshal(t)
    \/ \E t \in tasks : PersistTaskSet(t)
    \/ PersistJoin
    \/ PersistSetIndex
    \/ \E r \in Readers, slot \in Slots : ReaderCall(r, slot)
    \/ \E r \in Readers : ReaderSpawn(r)
    \/ \E t \in tasks : ReaderTaskGet(t)
    \/ \E t \in tasks : ReaderTaskUnmarshal(t)
    \/ \E t \in tasks : ReaderTaskSend(t)
    \/ \E r \in Readers : ReaderJoin(r)

\* The Go scheduler runs every runnable goroutine: a step of a call in
\* progress that stays possible is eventually taken.
SpecReaders == Init /\ [][NextReaders]_vars /\ WF_vars(ReaderProgress)

(***************************************************************************)
(* Persist of lists as long as the protocol's cap and longer: Persist      *)
(* takes whatever list its caller hands it.  The sidecars of a list have   *)
(* pairwise distinct commitments; their payloads take the values of the    *)
(* model in turn.                                                          *)
(***************************************************************************)
LongInputs ==
    {BlobSidecars([k \in 1..n |->
                     BlobSidecar((k % NumBlobs) + 1, KzgCommitment(k))]) :
       n \in BlobsPerSlot..MaxLong}

PersistLong(slot, sidecars, d) ==
    /\ ncalls < MaxPersists
    /\ Persist(slot, sidecars, d)

NextLong ==
    \/ \E slot \in Slots, sidecars \in LongInputs, d \in {1, 2} :
         PersistLong(slot, sidecars, d)
    \/ PersistLoop
    \/ PersistSet
    \/ PersistSpawn
    \/ \E t \in tasks : PersistTaskMarshal(t)
    \/ \E t \in tasks : PersistTaskSet(t)
    \/ PersistJoin
    \/ PersistSetIndex

SpecLong == Init /\ [][NextLong]_vars

(***************************************************************************)
(* Vocabulary of the properties.                                           *)
(***************************************************************************)
Terminated(c) == c.pc \in {"returned", "panic"}
ListOf(c) == c.sidecars.Sidecars
NonEmptyList(c) == ~c.sidecars.isNil /\ Len(ListOf(c)) > 0
NilPositions(c) == {i \in 1..Len(ListOf(c)) : ListOf(c)[i].isNil}
CommitmentsOf(c) == [i \in 1..Len(ListOf(c)) |-> ListOf(c)[i].KzgCommitment]
PairwiseDistinct(seq) ==
    \A i, j \in 1..Len(seq) : i # j => seq[i] # seq[j]
\* The goroutines the call in progress started and that still run.
OwnTasks == {t \in tasks : t.cid = call.id}
\* The indices whose Set the Persist in progress has issued and not yet seen
\* return.
SetsInFlight ==
    (IF call.op = "Persist" /\ call.pc = "set" THEN {call.i} ELSE {}) \cup
    {t.index : t \in {u \in OwnTasks : u.op = "Persist" /\ u.pc = "set"}}

(***************************************************************************)
(* C1.  Round trip: a successful Persist(slot, S) of 1..6 non-nil sidecars *)
(* with pairwise distinct commitments, within the DA period, followed by   *)
(* GetBlobsFromStore(slot), no backend failure in either, returns no error *)
(* and a collection of length |S| equal to S position by position, in      *)
(* commitment and payload.                                                 *)
(***************************************************************************)
C1_RoundTrip ==
    ( /\ call.op = "GetBlobsFromStore" /\ Terminated(call) /\ ~call.faulted
      /\ last.op = "Persist" /\ last.pc = "returned" /\ last.err = NoErr
      /\ last.within /\ ~last.faulted /\ last.slot = call.slot
      /\ NonEmptyList(last) /\ Len(ListOf(last)) <= BlobsPerSlot
      /\ NilPositions(last) = {}
      /\ PairwiseDistinct(CommitmentsOf(last)) )
    => /\ call.pc = "returned" /\ call.err = NoErr /\ ~call.outNil
       /\ Len(call.out) = Len(ListOf(last))
       /\ \A i \in 1..Len(ListOf(last)) :
            /\ call.out[i].KzgCommitment = ListOf(last)[i].KzgCommitment
            /\ call.out[i].Blob = ListOf(last)[i].Blob

(***************************************************************************)
(* C2.  IsDataAvailable returns true exactly when every Has lookup         *)
(* succeeds and reports presence; a missing record or a failing lookup     *)
(* gives false; it returns no error and does not crash; the empty list     *)
(* gives true.  (Stated for a call during which no write reached the       *)
(* IndexDB, so that the records it looked up are those of db.)             *)
(***************************************************************************)
C2_IsDataAvailable ==
    call.op = "IsDataAvailable" =>
      /\ call.pc \in {"has", "returned"}
      /\ call.err = NoErr
      /\ (call.pc = "returned" /\ db = call.dbAtStart) =>
           ( call.avail <=>
               /\ ~call.faulted
               /\ \A i \in 1..Len(call.body) :
                    <<call.slot, call.body[i]>> \in DOMAIN db )
      /\ (call.pc = "returned" /\ Len(call.body) = 0) => call.avail

C2_Witness ==
    /\ call.op = "IsDataAvailable" /\ call.pc = "returned"
    /\ call.avail /\ db = call.dbAtStart
    /\ Len(call.body) = 2 /\ call.body[1] # call.body[2]

(***************************************************************************)
(* C3.  Persist with an empty or absent sidecar list returns success,      *)
(* does not consult the chain spec, and writes nothing: the step leaves    *)
(* the IndexDB as it was and starts no goroutine.                          *)
(***************************************************************************)
C3_NoSidecars ==
    /\ [](( /\ call.op = "Persist"
            /\ (call.sidecars.isNil \/ Len(ListOf(call)) = 0) )
          => /\ call.pc = "returned" /\ call.err = NoErr
             /\ ~call.daConsulted
             /\ call.writes = <<>>
             /\ OwnTasks = {})
    /\ [][( /\ call'.id # call.id /\ call'.op = "Persist"
            /\ (call'.sidecars.isNil \/ Len(call'.sidecars.Sidecars) = 0) )
          => (db' = db /\ tasks' = tasks)]_vars

C3_Witness ==
    /\ call.op = "Persist" /\ call.pc = "returned"
    /\ ~call.sidecars.isNil /\ Len(ListOf(call)) = 0
    /\ DOMAIN db # {}

(***************************************************************************)
(* C4.  GetBlobsFromStore on a slot with no index record returns the empty *)
(* collection and no error, starts no read goroutine and so reads no       *)
(* sidecar record.                                                         *)
(***************************************************************************)
C4_NeverPersisted ==
    ( /\ call.op = "GetBlobsFromStore"
      /\ <<call.slot, SlotCommitmentsKey>> \notin DOMAIN call.dbAtStart )
    => /\ call.pc = "returned" /\ call.err = NoErr
       /\ ~call.outNil /\ call.out = <<>>
       /\ call.wg = 0 /\ call.i = 0 /\ OwnTasks = {}

C4_Witness ==
    /\ call.op = "GetBlobsFromStore" /\ call.pc = "returned"
    /\ <<call.slot, SlotCommitmentsKey>> \notin DOMAIN call.dbAtStart
    /\ \E c \in Commitments : <<call.slot, c>> \in DOMAIN call.dbAtStart

(***************************************************************************)
(* C5.  When the chain spec answers that the slot is outside the DA        *)
(* period, Persist of a non-empty list returns success and writes nothing: *)
(* no sidecar record, no index record, no goroutine.                       *)
(***************************************************************************)
C5_OutsideDAPeriod ==
    /\ [](( /\ call.op = "Persist" /\ call.daConsulted /\ ~call.within )
          => /\ call.pc = "returned" /\ call.err = NoErr
             /\ call.writes = <<>>
             /\ OwnTasks = {})
    /\ [][( /\ call'.id # call.id /\ call'.op = "Persist"
            /\ call'.daConsulted /\ ~call'.within )
          => (db' = db /\ tasks' = tasks)]_vars

C5_Witness ==
    /\ call.op = "Persist" /\ call.pc = "returned"
    /\ call.daConsulted /\ ~call.within
    /\ Len(ListOf(call)) = 2 /\ NilPositions(call) = {}
    /\ DOMAIN db # {}

(***************************************************************************)
(* C6.  Persist of a non-empty list, within the DA period, with one nil    *)
(* entry at any position, the first included, and no other failure,        *)
(* returns ErrAttemptedToStoreNilSidecar; it writes no index record, and   *)
(* writes only sidecars that precede the nil entry.                        *)
(***************************************************************************)
C6_NilSidecar ==
    ( /\ call.op = "Persist" /\ Terminated(call)
      /\ NonEmptyList(call) /\ Cardinality(NilPositions(call)) = 1
      /\ ~(call.daConsulted /\ ~call.within)
      /\ ~call.faulted )
    => /\ call.pc = "returned"
       /\ call.err = ErrAttemptedToStoreNilSidecar
       /\ \A k \in 1..Len(call.writes) :
            \E i \in 1..Len(ListOf(call)) :
               /\ \A n \in NilPositions(call) : i < n
               /\ call.writes[k] = ListOf(call)[i].KzgCommitment

(***************************************************************************)
(* C7.  After a successful Persist(slot, S) of a non-empty list within the *)
(* DA period the IndexDB holds, under "slot_commitments", a record that    *)
(* decodes to the commitments of S in input order, and that record was     *)
(* written after every sidecar of S.                                       *)
(***************************************************************************)
C7_IndexAfterSidecars ==
    ( /\ call.op = "Persist" /\ call.pc = "returned" /\ call.err = NoErr
      /\ NonEmptyList(call) /\ call.daConsulted /\ call.within )
    => /\ <<call.slot, SlotCommitmentsKey>> \in DOMAIN db
       /\ DeserializeOk(db[<<call.slot, SlotCommitmentsKey>>])
       /\ DeserializeCommitments(db[<<call.slot, SlotCommitmentsKey>>])
            = CommitmentsOf(call)
       /\ Len(call.writes) = Len(ListOf(call)) + 1
       /\ call.writes[Len(call.writes)] = SlotCommitmentsKey

(***************************************************************************)
(* C8.  Within one Persist the sidecar writes are sequential and in input  *)
(* order: at most one Set is in flight, and when the Set of sidecar j is   *)
(* in flight the Sets of all sidecars before j have completed.             *)
(***************************************************************************)
C8_SequentialWrites ==
    call.op = "Persist" =>
      /\ Cardinality(SetsInFlight) <= 1
      /\ \A j \in SetsInFlight :
           /\ Len(call.writes) = j - 1
           /\ \A i \in 1..(j - 1) :
                call.writes[i] = ListOf(call)[i].KzgCommitment

(***************************************************************************)
(* C9.  GetBlobsFromStore is all-or-nothing: when a read goroutine failed  *)
(* the call returns one of the failures and a nil collection; when it      *)
(* returns no error every position of the collection holds a sidecar.      *)
(***************************************************************************)
C9_AllOrNothing ==
    (call.op = "GetBlobsFromStore" /\ call.pc = "returned") =>
      /\ Len(call.errChan) > 0 =>
           /\ \E k \in 1..Len(call.errChan) : call.err = call.errChan[k]
           /\ call.err # NoErr
      /\ call.err # NoErr => (call.outNil /\ call.out = <<>>)
      /\ call.err = NoErr =>
           /\ ~call.outNil
           /\ \A i \in 1..Len(call.out) : ~call.out[i].isNil

C9_Witness ==
    /\ call.op = "GetBlobsFromStore" /\ call.pc = "returned"
    /\ Len(call.commitments) = 2 /\ Len(call.errChan) = 1

(***************************************************************************)
(* C10.  Whatever the order in which the read goroutines complete, a       *)
(* successful GetBlobsFromStore returns at position i the sidecar read for *)
(* the i-th commitment of the decoded index; no two goroutines hold the    *)
(* same position, and a position is written once.                          *)
(***************************************************************************)
C10_OrderedByIndex ==
    call.op = "GetBlobsFromStore" =>
      /\ (call.pc = "returned" /\ call.err = NoErr) =>
           /\ Len(call.out) = Len(call.commitments)
           /\ \A i \in 1..Len(call.out) :
                /\ call.out[i].KzgCommitment = call.commitments[i]
                /\ db = call.dbAtStart =>
                     MarshalSSZ(call.out[i])
                       = db[<<call.slot, call.commitments[i]>>]
      /\ \A t, u \in OwnTasks : t.index = u.index => t = u
      /\ \A t \in OwnTasks : call.out[t.index].isNil

C10_Witness ==
    /\ call.op = "GetBlobsFromStore" /\ call.pc = "returned"
    /\ call.err = NoErr /\ Len(call.out) = 2
    /\ call.out[1].KzgCommitment # call.out[2].KzgCommitment

(***************************************************************************)
(* C11.  Calls of GetBlobsFromStore that run concurrently on a slot        *)
(* already persisted, no Persist in flight and no read failing in the      *)
(* backend, all return the same collection, in the same order: the one a   *)
(* call running alone returns, the sidecars of the index record's          *)
(* commitments in its order.                                               *)
(***************************************************************************)
C11_ConcurrentReads ==
    \A r \in Readers :
      ( /\ readers[r].pc \in {"returned", "panic"} /\ ~readers[r].faulted
        /\ Has(readers[r].dbAtStart, readers[r].slot, SlotCommitmentsKey) )
      => LET bz == Get(readers[r].dbAtStart, readers[r].slot, SlotCommitmentsKey)
             record(k) == Get(readers[r].dbAtStart, readers[r].slot,
                              SubSeq(bz, 2 + 48 * (k - 1), 1 + 48 * k))
         IN
         /\ readers[r].pc = "returned"
         /\ readers[r].err = NoErr /\ ~readers[r].outNil
         /\ Len(readers[r].out) = bz[1]
         /\ \A k \in 1..bz[1] :
              /\ ~readers[r].out[k].isNil
              /\ readers[r].out[k].Blob = record(k)[1]
              /\ readers[r].out[k].KzgCommitment = SubSeq(record(k), 2, 49)
         /\ \A q \in Readers :
              ( /\ readers[q].pc = "returned" /\ ~readers[q].faulted
                /\ readers[q].slot = readers[r].slot )
              => readers[q].out = readers[r].out

C11_Witness ==
    /\ \A r \in Readers :
         /\ readers[r].pc = "returned" /\ readers[r].overlapped
         /\ ~readers[r].faulted
         /\ Len(readers[r].out) = 2
    /\ readers[1].slot = readers[2].slot
    /\ readers[1].out[1] # readers[1].out[2]

(***************************************************************************)
(* C12.  Codec of the index record: for every ordered list of 0 to 6       *)
(* commitments of 48 bytes, the encoding is one count byte followed by the *)
(* commitments concatenated in order, 1 + 48 * count bytes long, and       *)
(* decoding it gives the same list back.                                   *)
(***************************************************************************)
C12_CodecRoundTrip ==
    (call.op = "codec" /\ call.pc # "serialize") =>
      /\ Len(call.bz) = 1 + 48 * Len(call.commitments)
      /\ call.bz[1] = Len(call.commitments)
      /\ \A k \in 1..Len(call.commitments) :
           \A b \in 1..48 :
             call.bz[1 + 48 * (k - 1) + b] = call.commitments[k][b]
      /\ call.pc # "panic"
      /\ call.pc = "returned" => call.out = call.commitments

C12_Witness ==
    /\ call.op = "codec" /\ call.pc = "returned"
    /\ Len(call.commitments) = 6
    /\ call.commitments[1] # call.commitments[6]

(***************************************************************************)
(* C13.  A failure of the Get of the slot's index record that is not a     *)
(* missing key is returned by GetBlobsFromStore as an error, not as an     *)
(* empty collection with no error.                                         *)
(***************************************************************************)
C13_IndexErrorPropagated ==
    ( /\ call.op = "GetBlobsFromStore" /\ Terminated(call)
      /\ call.faulted /\ call.i = 0 )
    => /\ call.pc = "returned"
       /\ call.err = ErrBackend
       /\ call.outNil

(***************************************************************************)
(* C14.  When the serialization or the Set of the k-th sidecar fails,      *)
(* Persist returns that error, issues no Set for a sidecar after the k-th, *)
(* writes no index record, and the records written before stay in place.   *)
(***************************************************************************)
C14_FailureStopsPersist ==
    (call.op = "Persist" /\ call.failed # {} /\ NilPositions(call) = {}) =>
      /\ \A k \in call.failed, j \in call.issued : j <= k
      /\ \A i \in 1..Len(call.writes) :
           /\ call.writes[i] # SlotCommitmentsKey
           /\ Has(db, call.slot, call.writes[i])
      /\ call.pc = "returned" => call.err \in {ErrMarshal, ErrBackend}

(***************************************************************************)
(* C15.  In every reachable state, a slot that has an index record has a   *)
(* sidecar record at (slot, commitment) for every commitment the index     *)
(* record lists.                                                           *)
(***************************************************************************)
C15_IndexImpliesSidecars ==
    \A slot \in Slots :
      Has(db, slot, SlotCommitmentsKey) =>
        LET bz == Get(db, slot, SlotCommitmentsKey) IN
        /\ Len(bz) >= 1
        /\ Len(bz) = 1 + bz[1] * COMMITMENT_SIZE
        /\ \A k \in 1..bz[1] :
             Has(db, slot, SubSeq(bz, 2 + (k - 1) * COMMITMENT_SIZE,
                                      1 + k * COMMITMENT_SIZE))

C15_Witness ==
    \E slot \in Slots :
      /\ Has(db, slot, SlotCommitmentsKey)
      /\ Get(db, slot, SlotCommitmentsKey)[1] = 2
      /\ SubSeq(Get(db, slot, SlotCommitmentsKey), 2, 1 + COMMITMENT_SIZE)
           # SubSeq(Get(db, slot, SlotCommitmentsKey), 2 + COMMITMENT_SIZE,
                    1 + 2 * COMMITMENT_SIZE)

(***************************************************************************)
(* C16.  GetBlobsFromStore, reading an index record that is malformed (an  *)
(* empty value, or a value shorter than 1 + 48 * count bytes for its count *)
(* byte), returns a decode error: it does not crash, starts no read        *)
(* goroutine and returns no collection.                                    *)
(***************************************************************************)
C16_MalformedIndex ==
    ( /\ call.op = "GetBlobsFromStore" /\ Terminated(call)
      /\ ~call.faulted
      /\ Has(call.dbAtStart, call.slot, SlotCommitmentsKey)
      /\ LET bz == Get(call.dbAtStart, call.slot, SlotCommitmentsKey) IN
         Len(bz) = 0 \/ Len(bz) < 1 + 48 * bz[1] )
    => /\ call.pc = "returned"
       /\ call.err = ErrDecode
       /\ call.outNil
       /\ call.i = 0

(***************************************************************************)
(* C17.  GetBlobsFromStore returns only once every read goroutine it       *)
(* started has completed, also when goroutines reported errors.            *)
(***************************************************************************)
C17_ReturnsAfterTasks ==
    (call.op = "GetBlobsFromStore" /\ call.pc = "returned") =>
      /\ OwnTasks = {}
      /\ call.wg = 0

C17_Witness ==
    /\ call.op = "GetBlobsFromStore" /\ call.pc = "returned"
    /\ Len(call.commitments) = 2
    /\ Cardinality(call.failed) = 1
    /\ call.err # NoErr

(***************************************************************************)
(* C18.  Every call of GetBlobsFromStore eventually returns when its       *)
(* goroutines are scheduled fairly: the buffer of errChan has room for the *)
(* error of every goroutine it started, so no goroutine waits on its send  *)
(* and the join completes, whether none, some or all of them fail.         *)
(***************************************************************************)
C18_EventuallyReturns ==
    /\ [](\A t \in ReaderTasks :
            t.pc = "send" =>
              Len(readers[ReaderOf(t)].errChan)
                < Len(readers[ReaderOf(t)].commitments))
    /\ \A r \in Readers :
         (readers[r].pc \in {"spawn", "wait"}) ~> (readers[r].pc = "returned")

C18_Witness ==
    \E r \in Readers :
      /\ readers[r].pc = "returned"
      /\ Len(readers[r].commitments) = 2
      /\ Len(readers[r].errChan) = 2
      /\ readers[r].overlapped

(***************************************************************************)
(* C19.  When Persist returns, with success or with any error, the         *)
(* nil-sidecar error included, no goroutine it started for a write is      *)
(* still running.                                                          *)
(***************************************************************************)
C19_NoWriteInFlightAtReturn ==
    (call.op = "Persist" /\ call.pc = "returned") => OwnTasks = {}

(***************************************************************************)
(* C20.  IsDataAvailable looks the commitments up in the order of the      *)
(* list and makes no further lookup once one reports absence or fails: it  *)
(* returns false at once.                                                  *)
(***************************************************************************)
C20_ShortCircuit ==
    call.op = "IsDataAvailable" =>
      /\ Len(call.lookups) <= Len(call.body)
      /\ \A k \in 1..Len(call.lookups) :
           /\ call.lookups[k].key = call.body[k]
           /\ (call.lookups[k].failed \/ ~call.lookups[k].found) =>
                /\ k = Len(call.lookups)
                /\ call.pc = "returned" /\ ~call.avail

C20_Witness ==
    /\ call.op = "IsDataAvailable" /\ call.pc = "returned" /\ ~call.avail
    /\ Len(call.body) = 2
    /\ Len(call.lookups) = 1

(***************************************************************************)
(* C21.  A persisted record is never mutated: a sidecar record or an index *)
(* record that exists when a call of the store begins keeps its value      *)
(* through the call, whatever the call is.                                 *)
(***************************************************************************)
C21_NeverMutated ==
    \A p \in DOMAIN call.dbAtStart :
      /\ p \in DOMAIN db
      /\ db[p] = call.dbAtStart[p]

(***************************************************************************)
(* C24.  After a successful Persist(slot, S) of a non-empty list within    *)
(* the DA period, IsDataAvailable(slot, C) with no failing lookup returns  *)
(* true for every list C made only of commitments of sidecars of S.        *)
(***************************************************************************)
C24_AvailableAfterPersist ==
    ( /\ call.op = "IsDataAvailable" /\ Terminated(call) /\ ~call.faulted
      /\ last.op = "Persist" /\ last.pc = "returned" /\ last.err = NoErr
      /\ last.within /\ NonEmptyList(last)
      /\ last.slot = call.slot
      /\ \A i \in 1..Len(call.body) :
           \E k \in 1..Len(ListOf(last)) :
             call.body[i] = ListOf(last)[k].KzgCommitment )
    => call.pc = "returned" /\ call.avail

C24_Witness ==
    /\ call.op = "IsDataAvailable" /\ call.pc = "returned" /\ call.avail
    /\ last.op = "Persist" /\ last.pc = "returned" /\ last.err = NoErr
    /\ last.within /\ last.slot = call.slot
    /\ Len(ListOf(last)) = 2
    /\ Len(call.body) = 2 /\ call.body[1] # call.body[2]
    /\ \A i \in 1..2 : \E k \in 1..2 : call.body[i] = ListOf(last)[k].KzgCommitment

(***************************************************************************)
(* C22.  After a Persist on a slot that had no index record fails before   *)
(* writing one, the sidecars it wrote are not reachable through the index: *)
(* GetBlobsFromStore(slot) returns an empty collection and no error.       *)
(***************************************************************************)
C22_OrphansUnreachable ==
    ( /\ call.op = "GetBlobsFromStore" /\ Terminated(call)
      /\ last.op = "Persist" /\ last.pc = "returned" /\ last.err # NoErr
      /\ ~last.indexed
      /\ last.slot = call.slot )
    => /\ call.pc = "returned" /\ call.err = NoErr
       /\ call.out = <<>> /\ ~call.outNil

C22_Witness ==
    /\ call.op = "GetBlobsFromStore" /\ call.pc = "returned"
    /\ last.op = "Persist" /\ last.pc = "returned" /\ last.err # NoErr
    /\ ~last.indexed /\ last.slot = call.slot
    /\ \E k \in 1..Len(ListOf(last)) :
         /\ ~ListOf(last)[k].isNil
         /\ Has(call.dbAtStart, call.slot, ListOf(last)[k].KzgCommitment)
    /\ call.out = <<>> /\ ~call.outNil /\ ~call.faulted

(***************************************************************************)
(* C23.  In every reachable state every index record lists at most 6       *)
(* commitments and its count byte is the number of 48-byte commitments     *)
(* that follow it, whatever list Persist was given, lists of more than 6   *)
(* sidecars included.                                                      *)
(***************************************************************************)
C23_AtMostSix ==
    \A slot \in Slots :
      Has(db, slot, SlotCommitmentsKey) =>
        LET bz == Get(db, slot, SlotCommitmentsKey) IN
        /\ Len(bz) >= 1
        /\ bz[1] <= 6
        /\ Len(bz) = 1 + 48 * bz[1]

\* C23 as the code has it: the count byte of every index record is the
\* number of 48-byte commitments that follow it, and the record lists the
\* sidecars of the Persist that wrote it, one commitment each: at most 6
\* when that list had at most 6, more when it had more.
C23_CountMatches ==
    \A slot \in Slots :
      Has(db, slot, SlotCommitmentsKey) =>
        LET bz == Get(db, slot, SlotCommitmentsKey) IN
        /\ Len(bz) >= 1
        /\ Len(bz) = 1 + 48 * bz[1]
        /\ \/ /\ call.op = "Persist" /\ call.slot = slot
              /\ bz[1] = Len(ListOf(call))
           \/ /\ last.op = "Persist" /\ last.slot = slot
              /\ bz[1] = Len(last.sidecars.Sidecars)

C23_Witness ==
    \E slot \in Slots :
      /\ Has(db, slot, SlotCommitmentsKey)
      /\ Get(db, slot, SlotCommitmentsKey)[1] = 7
      /\ call.op = "Persist" /\ call.pc = "returned" /\ call.err = NoErr

(***************************************************************************)
(* C25.  The read operations leave the backend unchanged: no step of       *)
(* IsDataAvailable or of GetBlobsFromStore, of the call or of a goroutine  *)
(* it started, ending in success or in failure, changes a record of any    *)
(* slot; and no step of Persist(slot, ...) or of its goroutines changes,   *)
(* adds or removes a record of another slot.                               *)
(***************************************************************************)
ReadStep ==
    \/ \E slot \in Slots, d \in {1, 2} : GetBlobsFromStore(slot, d)
    \/ GetBlobsSpawn
    \/ \E t \in tasks : GetBlobsTaskGet(t)
    \/ \E t \in tasks : GetBlobsTaskUnmarshal(t)
    \/ GetBlobsJoin
    \/ \E slot \in Slots, body \in BodyInputs : IsDataAvailable(slot, body)
    \/ IsDataAvailableLookup

OtherSlotsSame(slot) ==
    \A p \in DOMAIN db \cup DOMAIN db' :
      p[1] # slot => /\ p \in DOMAIN db /\ p \in DOMAIN db'
                     /\ db'[p] = db[p]

C25_Frame ==
    [][ /\ ReadStep => db' = db
        /\ (call'.op = "Persist" /\ call' # call) => OtherSlotsSame(call'.slot)
        /\ \A t \in tasks :
             (PersistTaskMarshal(t) \/ PersistTaskSet(t))
               => OtherSlotsSame(t.slot) ]_vars

C25_Witness ==
    /\ call.op = "GetBlobsFromStore" /\ call.pc = "returned"
    /\ Len(call.out) = 2 /\ ~call.outNil
    /\ last.op = "Persist"
    /\ db = call.dbAtStart

=============================================================================
